---- MODULE Spec2Model ----
(***************************************************************************)
(* Pagination engine of the CI/CD tooling: GitHubClient.getAllData,        *)
(* getAllDataUntil, getAllFilteredData, createAlternatePagesGroups and     *)
(* LinkHeaderParser.toLinkHeader.                                          *)
(*                                                                         *)
(* A string is a sequence of one-character strings.  An item of page p is  *)
(* the pair <<p, j>>, j its position inside the page.                      *)
(***************************************************************************)
EXTENDS Integers, Sequences, FiniteSets, TLC

\* ------------------------------------------------------------------ bounds
MaxPages == 9
MaxFetchAllPages == 4
MaxItems == 2

\* ----------------------------------------------------------------- strings
Digit == <<"0", "1", "2", "3", "4", "5", "6", "7", "8", "9">>

IsDigit(c) == \E d \in 1..10 : Digit[d] = c

DigitValue(c) == (CHOOSE d \in 1..10 : Digit[d] = c) - 1

RECURSIVE Digits(_)
Digits(n) == IF n < 10 THEN <<Digit[n + 1]>> ELSE Digits(n \div 10) \o <<Digit[(n % 10) + 1]>>

StartsWithAt(s, k, sub) ==
    /\ k + Len(sub) - 1 <= Len(s)
    /\ \A j \in 1..Len(sub) : s[k + j - 1] = sub[j]

includes(s, sub) == \E k \in 1..(Len(s) + 1) : StartsWithAt(s, k, sub)

IsSpace(c) == c = " "

RECURSIVE trimStart(_)
trimStart(s) == IF s # <<>> /\ IsSpace(Head(s)) THEN trimStart(Tail(s)) ELSE s

RECURSIVE trimEnd(_)
trimEnd(s) == IF s # <<>> /\ IsSpace(s[Len(s)]) THEN trimEnd(SubSeq(s, 1, Len(s) - 1)) ELSE s

trim(s) == trimEnd(trimStart(s))

\* Utils.splitBy: the pieces of value between the occurrences of separator
RECURSIVE splitFrom(_, _, _)
splitFrom(value, separator, piece) ==
    IF value = <<>> THEN <<piece>>
    ELSE IF Head(value) = separator THEN <<piece>> \o splitFrom(Tail(value), separator, <<>>)
    ELSE splitFrom(Tail(value), separator, Append(piece, Head(value)))

splitBy(value, separator) == IF value = <<>> THEN <<>> ELSE splitFrom(value, separator, <<>>)

splitByComma(value) == splitBy(value, ",")

isNullOrEmptyOrUndefined(value) == value = <<>>

\* Utils.clamp
clamp(num, min, max) == IF num < min THEN min ELSE IF num > max THEN max ELSE num

\* ------------------------------------------------------- LinkHeaderParser
PageEq == <<"p", "a", "g", "e", "=">>
RelPrev == <<"r", "e", "l", "=", "\"", "p", "r", "e", "v", "\"">>
RelNext == <<"r", "e", "l", "=", "\"", "n", "e", "x", "t", "\"">>
RelLast == <<"r", "e", "l", "=", "\"", "l", "a", "s", "t", "\"">>
RelFirst == <<"r", "e", "l", "=", "\"", "f", "i", "r", "s", "t", "\"">>

\* pageNumRegex = /page=[0-9]+/ : k is the start of a match
pageNumRegexAt(s, k) ==
    /\ StartsWithAt(s, k, PageEq)
    /\ k + 5 <= Len(s)
    /\ IsDigit(s[k + 5])

\* the digits a match starting at k covers (the + is greedy)
RECURSIVE digitRun(_, _)
digitRun(s, k) == IF k <= Len(s) /\ IsDigit(s[k]) THEN <<s[k]>> \o digitRun(s, k + 1) ELSE <<>>

RECURSIVE parseIntFrom(_, _)
parseIntFrom(ds, acc) == IF ds = <<>> THEN acc ELSE parseIntFrom(Tail(ds), acc * 10 + DigitValue(Head(ds)))

parseInt(ds) == parseIntFrom(ds, 0)

getPageNumberLastMatch(pageUrlArg) ==
    LET pageUrl == trim(pageUrlArg)
        starts == {k \in 1..Len(pageUrl) : pageNumRegexAt(pageUrl, k)}
    IN IF starts = {} THEN 0
       ELSE LET last == CHOOSE k \in starts : \A m \in starts : m <= k
                match == PageEq \o digitRun(pageUrl, last + 5)
            IN parseInt(splitBy(match, "=")[2])

getPageNumberOneDigit(pageUrlArg) ==
    LET pageUrl == trim(pageUrlArg)
        starts == {k \in 1..Len(pageUrl) : pageNumRegexAt(pageUrl, k)}
    IN IF starts = {} THEN 0
       ELSE LET first == CHOOSE k \in starts : \A m \in starts : k <= m
            IN parseInt(<<pageUrl[first + 5]>>)

getPageNumber(pageUrlArg) ==
    LET pageUrl == trim(pageUrlArg)
        starts == {k \in 1..Len(pageUrl) : pageNumRegexAt(pageUrl, k)}
    IN IF starts = {} THEN 0
       ELSE LET first == CHOOSE k \in starts : \A m \in starts : k <= m
                match == PageEq \o digitRun(pageUrl, first + 5)
            IN parseInt(splitBy(match, "=")[2])

isPrev(pageInfo) == includes(pageInfo.metadata, RelPrev)

isNext(pageInfo) == includes(pageInfo.metadata, RelNext)

isLastLoose(pageInfo) == includes(pageInfo.metadata, <<"r", "e", "l", "=">>)

isLast(pageInfo) == includes(pageInfo.metadata, RelLast)

\* the response of a page fetch carries a Link header, or none
NoLink == <<"<none>">>

Thrown == [status |-> "throw"]

Null == [status |-> "null"]

\* the loop of toLinkHeader over the sections not yet processed
RECURSIVE toLinkHeaderLoop(_, _)
toLinkHeaderLoop(headerSections, linkHeaderInfo) ==
    IF headerSections = <<>> THEN linkHeaderInfo
    ELSE LET headerSection == Head(headerSections)
             raw == splitBy(headerSection, ";")
             pageInfoSections == [k \in 1..Len(raw) |-> trim(raw[k])]
         IN IF Len(pageInfoSections) < 2 THEN Thrown
            ELSE LET pageUrl == trim(pageInfoSections[1])
                     metadata == trim(pageInfoSections[2])
                     pageInfo == [pageUrl |-> pageUrl, metadata |-> metadata]
                     pushed == [linkHeaderInfo EXCEPT !.pageData = Append(@, pageInfo)]
                     updated ==
                         IF isPrev(pageInfo) THEN [pushed EXCEPT !.prevPage = getPageNumber(pageUrl)]
                         ELSE IF isNext(pageInfo) THEN [pushed EXCEPT !.nextPage = getPageNumber(pageUrl)]
                         ELSE IF isLast(pageInfo) THEN [pushed EXCEPT !.totalPages = getPageNumber(pageUrl)]
                         ELSE pushed
                 IN toLinkHeaderLoop(Tail(headerSections), updated)

\* toLinkHeader of a header string, or of a response, given as its Link header
\* (NoLink: the response has none)
toLinkHeader(responseOrHeaderString) ==
    IF responseOrHeaderString = NoLink \/ isNullOrEmptyOrUndefined(responseOrHeaderString) THEN Null
    ELSE LET raw == splitByComma(responseOrHeaderString)
             headerSections == [k \in 1..Len(raw) |-> trim(raw[k])]
         IN toLinkHeaderLoop(headerSections,
                [status |-> "ok", prevPage |-> 0, nextPage |-> 0, totalPages |-> 0, pageData |-> <<>>])

\* ------------------------------------------------------------ environment
\* The paginated collection behind the page-fetch callback: pageLens[p] is
\* the number of items of page p, link describes the Link header of its
\* responses.
VARIABLES pageLens, link

\* ------------------------------------------------------------ GitHubClient
\* the call of the client that is running: its arguments, locals and position
VARIABLES op, page, qtyPerPage, until, filter, pc, calls, requests, allData, groupA, groupB, i, result

\* a second call on the same client, suspended at an await while the first runs
VARIABLES other

\* an argument handed to toLinkHeader or createAlternatePagesGroups on its
\* own, and what came back
VARIABLES arg, ret

\* a call of GitClient.getBranch or getBranches: its locals and position
VARIABLES git

\* a GitHubVariableService: its cache and the calls running on it
VARIABLES varService

vars == <<pageLens, link, op, page, qtyPerPage, until, filter, pc, calls, requests, allData, groupA, groupB, i, result,
          other, arg, ret, git, varService>>

\* what no step of the running call touches
envVars == <<pageLens, link, other, arg, ret, git, varService>>

\* dataItems of the response to getData(p, qtyPerPage); a page past the end is empty
PageItems(p) == IF p \in 1..Len(pageLens) THEN [j \in 1..pageLens[p] |-> <<p, j>>] ELSE <<>>

RECURSIVE Flatten(_)
Flatten(seqs) == IF seqs = <<>> THEN <<>> ELSE Head(seqs) \o Flatten(Tail(seqs))

\* Link headers the callback's responses carry
Url(n) == <<"<", "u", "?">> \o PageEq \o Digits(n) \o <<">">>

Section(n, rel) == Url(n) \o <<";", " ">> \o rel

StdHeader(n) == IF n >= 2 THEN Section(2, RelNext) \o <<",", " ">> \o Section(n, RelLast) ELSE Section(n, RelLast)

NoLastHeader == Section(1, RelPrev) \o <<",", " ">> \o Section(1, RelFirst)

NoMetadataHeader == Url(2)

HeaderKinds == {"std", "none", "noLast", "noMetadata"}

\* the Link header of a response, link naming its kind and its last page
HeaderOf(l) ==
    CASE l.kind = "std" -> StdHeader(l.last)
      [] l.kind = "none" -> NoLink
      [] l.kind = "noLast" -> NoLastHeader
      [] l.kind = "noMetadata" -> NoMetadataHeader

\* page sizes: every page full, but that one page may be empty and that the
\* last page may be partly filled
Lens(n) == {[p \in 1..n |-> MaxItems]} \cup
           {[p \in 1..n |-> IF p = empty THEN 0 ELSE MaxItems] : empty \in 1..n} \cup
           {[p \in 1..n |-> IF p = n THEN len ELSE MaxItems] : len \in 1..(MaxItems - 1)}

\* the caller's until predicate: true on a non-empty page iff the page is in
\* targets, and on an empty page iff matchEmpty
untilHolds(u, pageOfData) == IF pageOfData = <<>> THEN u.matchEmpty ELSE pageOfData[1][1] \in u.targets

\* the predicates tried: no page, one page, or the two pages that are probed
\* together in one round (k from the front, as many from the back)
Targets == {{}} \cup {{p} : p \in 1..Len(pageLens)} \cup
           {{p, Len(pageLens) + 2 - p} : p \in 2..(Len(pageLens) \div 2)}

Untils == [targets : Targets, matchEmpty : BOOLEAN]

NoUntil == [targets |-> {}, matchEmpty |-> FALSE]

\* the caller's filter function
Filters == {"keepAll", "keepFirstOfPage", "dropFirst"}

filterFunction(f, pageOfData) ==
    CASE f = "keepAll" -> pageOfData
      [] f = "keepFirstOfPage" -> SelectSeq(pageOfData, LAMBDA item : item[2] = 1)
      [] f = "dropFirst" -> IF pageOfData = <<>> THEN <<>> ELSE Tail(pageOfData)

applyFilterTwice(f, pageOfData) == filterFunction(f, filterFunction(f, pageOfData))

\* filter(await this.getAllData(getData, page, qtyPerPage))
applyFilter(f, pageOfData) == filterFunction(f, pageOfData)

ArgPages == {-3, 0, 1, 2}

ArgQtys == {-5, 0, 500}

\* the collections of at most maxPages pages and their Link headers
Collection(maxPages) ==
    \E n \in 1..maxPages, kind \in HeaderKinds :
        /\ kind # "std" => n = 1
        /\ pageLens \in Lens(n)
        /\ link = [kind |-> kind, last |-> n]

\* no call has been made on the client
NoCall ==
    /\ op = "none"
    /\ page = 0
    /\ qtyPerPage = 0
    /\ until = NoUntil
    /\ filter = "keepAll"
    /\ pc = "idle"
    /\ calls = <<>>
    /\ requests = <<>>
    /\ allData = <<>>
    /\ groupA = <<>>
    /\ groupB = <<>>
    /\ i = 0
    /\ result = <<>>

\* the variables of a call, as kept while the call is suspended
Suspended(o, pg, qty, u, f, position, cs, reqs, data, gA, gB, round, res) ==
    [op |-> o, page |-> pg, qtyPerPage |-> qty, until |-> u, filter |-> f, pc |-> position, calls |-> cs,
     requests |-> reqs, allData |-> data, groupA |-> gA, groupB |-> gB, i |-> round, result |-> res]

NotCalled == Suspended("none", 0, 0, NoUntil, "keepAll", "idle", <<>>, <<>>, <<>>, <<>>, <<>>, 0, <<>>)

\* nothing has been handed over, nothing has come back
Nothing == [status |-> "nothing"]

Init ==
    /\ Collection(MaxPages)
    /\ NoCall
    /\ other = NotCalled
    /\ arg = Nothing
    /\ ret = Nothing
    /\ git = Nothing
    /\ varService = Nothing

coercePageKept(p) == p

\* page = page < 1 ? 1 : page
coercePage(p) == IF p < 1 THEN 1 ELSE p

\* one invocation of getData(p, qty), appended to the log of invocations
Call(p, qty, group, round) == [page |-> p, qty |-> qty, group |-> group, round |-> round, state |-> "pending", order |-> 0]

Pending == {c \in 1..Len(calls) : calls[c].state = "pending"}

Completed == {c \in 1..Len(calls) : calls[c].state # "pending"}

catchFallsThrough ==
    /\ pc' = "returned"
    /\ result' = allData

\* catch (error) { ...; Deno.exit(1); }
catch ==
    /\ pc' = "exited"
    /\ result' = result

awaitedAny(reqs) == reqs = <<>> \/ \E k \in 1..Len(reqs) : calls[reqs[k]].state = "ok"

\* await of the promises in reqs (one promise, or Promise.all): all fulfilled
awaited(reqs) == \A k \in 1..Len(reqs) : calls[reqs[k]].state = "ok"

promiseAllByCompletion(reqs) ==
    [k \in 1..Len(reqs) |->
        LET r == CHOOSE q \in 1..Len(reqs) :
                     Cardinality({m \in 1..Len(reqs) : calls[reqs[m]].order <= calls[reqs[q]].order}) = k
        IN PageItems(calls[reqs[r]].page)]

\* the values Promise.all(reqs) resolves to: the pages' items in the order of reqs
promiseAll(reqs) == [k \in 1..Len(reqs) |-> PageItems(calls[reqs[k]].page)]

\* a page fetch comes back with its page of data
fetchResolves(c) ==
    /\ pc \in {"awaitSeed", "awaitAll", "awaitRound"}
    /\ c \in Pending
    /\ calls' = [calls EXCEPT ![c].state = "ok", ![c].order = Cardinality(Completed) + 1]
    /\ UNCHANGED <<envVars, op, page, qtyPerPage, until, filter, pc, requests, allData, groupA, groupB, i, result>>

fetchRejectsRetried(c) ==
    /\ pc \in {"awaitSeed", "awaitAll", "awaitRound"}
    /\ c \in Pending
    /\ Len(calls) <= MaxPages
    /\ calls' = Append([calls EXCEPT ![c].state = "failed", ![c].order = Cardinality(Completed) + 1],
                       Call(calls[c].page, calls[c].qty, calls[c].group, calls[c].round))
    /\ requests' = [k \in 1..Len(requests) |-> IF requests[k] = c THEN Len(calls) + 1 ELSE requests[k]]
    /\ UNCHANGED <<envVars, op, page, qtyPerPage, until, filter, pc, allData, groupA, groupB, i, result>>

\* a page fetch fails: the awaiting operation lands in its catch block
fetchRejects(c) ==
    /\ pc \in {"awaitSeed", "awaitAll", "awaitRound"}
    /\ c \in Pending
    /\ calls' = [calls EXCEPT ![c].state = "failed", ![c].order = Cardinality(Completed) + 1]
    /\ UNCHANGED <<envVars, op, page, qtyPerPage, until, filter, requests, allData, groupA, groupB, i>>
    /\ catch

\* getAllData up to its first await
getAllData(pageArg, qtyArg) ==
    /\ pc = "idle"
    /\ Len(pageLens) <= MaxFetchAllPages
    /\ op' = "getAllData"
    /\ page' = coercePage(pageArg)
    /\ qtyPerPage' = clamp(qtyArg, 1, 100)
    /\ calls' = <<Call(page', qtyPerPage', "seed", 0)>>
    /\ requests' = <<1>>
    /\ pc' = "awaitSeed"
    /\ UNCHANGED <<envVars, until, filter, allData, groupA, groupB, i, result>>

\* getAllFilteredData up to the first await of the getAllData it calls
getAllFilteredData(pageArg, qtyArg, filterArg) ==
    /\ pc = "idle"
    /\ Len(pageLens) <= MaxFetchAllPages
    /\ op' = "getAllFilteredData"
    /\ filter' = filterArg
    /\ page' = coercePage(coercePage(pageArg))
    /\ qtyPerPage' = clamp(clamp(qtyArg, 1, 100), 1, 100)
    /\ calls' = <<Call(page', qtyPerPage', "seed", 0)>>
    /\ requests' = <<1>>
    /\ pc' = "awaitSeed"
    /\ UNCHANGED <<envVars, until, allData, groupA, groupB, i, result>>

totalPagesLeftNeverZero(linkHeader) ==
    IF linkHeader.status = "null" THEN 1 ELSE IF linkHeader.totalPages = 0 THEN 2 ELSE linkHeader.totalPages

totalPagesLeftAtLeastTwo(linkHeader) == IF linkHeader.status = "null" THEN 2 ELSE linkHeader.totalPages

\* linkHeader === null ? 1 : linkHeader?.totalPages ?? 0
totalPagesLeft(linkHeader) == IF linkHeader.status = "null" THEN 1 ELSE linkHeader.totalPages

dataRequestsButLast(total, qty) == [k \in 1..(IF total >= 3 THEN total - 2 ELSE 0) |-> Call(k + 1, qty, "all", 1)]

\* for (let i = 2; i <= totalPagesLeft; i++) dataRequests.push(getData(i, qtyPerPage))
dataRequests(total, qty) == [k \in 1..(IF total >= 2 THEN total - 1 ELSE 0) |-> Call(k + 1, qty, "all", 1)]

\* getAllData from the seed page's arrival to await Promise.all(dataRequests)
getAllDataSeed ==
    /\ pc = "awaitSeed"
    /\ op \in {"getAllData", "getAllFilteredData"}
    /\ awaited(requests)
    /\ LET dataItems == promiseAll(requests)[1]
           linkHeader == toLinkHeader(HeaderOf(link))
       IN /\ allData' = allData \o dataItems
          /\ IF linkHeader.status = "throw"
             THEN /\ catch
                  /\ UNCHANGED <<calls, requests>>
             ELSE /\ calls' = calls \o dataRequests(totalPagesLeft(linkHeader), qtyPerPage)
                  /\ requests' = [k \in 1..(Len(calls') - Len(calls)) |-> Len(calls) + k]
                  /\ pc' = "awaitAll"
                  /\ UNCHANGED result
    /\ UNCHANGED <<envVars, op, page, qtyPerPage, until, filter, groupA, groupB, i>>

\* getAllData from the arrival of all the remaining pages to its return
getAllDataRest ==
    /\ pc = "awaitAll"
    /\ awaited(requests)
    /\ allData' = allData \o Flatten(promiseAll(requests))
    /\ IF op = "getAllData"
       THEN /\ pc' = "returned"
            /\ result' = allData'
       ELSE /\ pc' = "filtering"
            /\ UNCHANGED result
    /\ UNCHANGED <<envVars, op, page, qtyPerPage, until, filter, calls, requests, groupA, groupB, i>>

\* getAllFilteredData once the getAllData it awaits has returned
getAllFilteredDataReturn ==
    /\ pc = "filtering"
    /\ result' = applyFilter(filter, allData)
    /\ pc' = "returned"
    /\ UNCHANGED <<envVars, op, page, qtyPerPage, until, filter, calls, requests, allData, groupA, groupB, i>>

\* createAlternatePagesGroups: its loop from i on
RECURSIVE alternateLoop(_, _, _, _, _)
alternateLoop(k, totalPages, firstHalfEndingIndex, firstHalf, secondHalf) ==
    IF k > totalPages THEN <<firstHalf, secondHalf>>
    ELSE IF k <= firstHalfEndingIndex
         THEN alternateLoop(k + 1, totalPages, firstHalfEndingIndex, Append(firstHalf, k), secondHalf)
         ELSE alternateLoop(k + 1, totalPages, firstHalfEndingIndex, firstHalf, Append(secondHalf, k))

reverse(s) == [k \in 1..Len(s) |-> s[Len(s) - k + 1]]

createAlternatePagesGroupsUnreversed(totalPages) ==
    LET halves == alternateLoop(1, totalPages, totalPages \div 2, <<>>, <<>>)
    IN <<halves[1], halves[2]>>

createAlternatePagesGroups(totalPages) ==
    LET halves == alternateLoop(1, totalPages, totalPages \div 2, <<>>, <<>>)
    IN <<halves[1], reverse(halves[2])>>

removeFirstPageSkipped(group) == group

\* groupA.filter((i) => i != 1)
removeFirstPage(group) == SelectSeq(group, LAMBDA p : p # 1)

min(a, b) == IF a <= b THEN a ELSE b

\* Math.max(groupA.length, groupB.length)
max(a, b) == IF a >= b THEN a ELSE b

\* the getData invocations of round r of getAllDataUntil
roundCalls(r, gA, gB, qty) ==
    (IF r <= Len(gA) - 1 THEN <<Call(gA[r + 1], qty, "A", r + 1)>> ELSE <<>>) \o
    (IF r <= Len(gB) - 1 THEN <<Call(gB[r + 1], qty, "B", r + 1)>> ELSE <<>>)

seedMatchesNonEmpty(u, dataItems) == Len(dataItems) > 0 /\ untilHolds(u, dataItems)

\* until(dataItems) on the seed page
seedMatches(u, dataItems) == untilHolds(u, dataItems)

groupMatchesSeveral(u, groupItems) == Len(groupItems) > 1 /\ untilHolds(u, groupItems)

groupMatchesUnchecked(u, groupItems) == Len(groupItems) > 0

\* groupItems.length > 0 && until(groupItems)
groupMatches(u, groupItems) == Len(groupItems) > 0 /\ untilHolds(u, groupItems)

\* getAllDataUntil up to its first await
getAllDataUntil(pageArg, qtyArg, untilArg) ==
    /\ pc = "idle"
    /\ op' = "getAllDataUntil"
    /\ until' = untilArg
    /\ page' = coercePage(pageArg)
    /\ qtyPerPage' = clamp(qtyArg, 1, 100)
    /\ calls' = <<Call(page', qtyPerPage', "seed", 0)>>
    /\ requests' = <<1>>
    /\ pc' = "awaitSeed"
    /\ UNCHANGED <<envVars, filter, allData, groupA, groupB, i, result>>

\* linkHeader?.totalPages ?? 0
totalPages(linkHeader) == IF linkHeader.status = "null" THEN 0 ELSE linkHeader.totalPages

\* getAllDataUntil from the seed page's arrival to the await of round 0
getAllDataUntilSeed ==
    /\ pc = "awaitSeed"
    /\ op = "getAllDataUntil"
    /\ awaited(requests)
    /\ LET dataItems == promiseAll(requests)[1]
           linkHeader == toLinkHeader(HeaderOf(link))
           groups == createAlternatePagesGroups(totalPages(linkHeader))
           gA == removeFirstPage(groups[1])
           gB == removeFirstPage(groups[2])
           maxLen == max(Len(gA), Len(gB))
       IN IF seedMatches(until, dataItems)
          THEN /\ pc' = "returned"
               /\ result' = dataItems
               /\ UNCHANGED <<calls, requests, groupA, groupB>>
          ELSE IF linkHeader.status = "throw"
          THEN /\ catch
               /\ UNCHANGED <<calls, requests, groupA, groupB>>
          ELSE /\ groupA' = gA
               /\ groupB' = gB
               /\ IF 0 < maxLen
                  THEN /\ calls' = calls \o roundCalls(0, gA, gB, qtyPerPage)
                       /\ requests' = [k \in 1..(Len(calls') - Len(calls)) |-> Len(calls) + k]
                       /\ pc' = "awaitRound"
                       /\ UNCHANGED result
                  ELSE /\ pc' = "returned"
                       /\ result' = <<>>
                       /\ UNCHANGED <<calls, requests>>
    /\ UNCHANGED <<envVars, op, page, qtyPerPage, until, filter, allData, i>>

\* getAllDataUntil from the arrival of round i's pages to the next await or return
getAllDataUntilRound ==
    /\ pc = "awaitRound"
    /\ awaited(requests)
    /\ LET results == promiseAll(requests)
           groupItemsA == IF Len(results) < 1 THEN <<>> ELSE results[1]
           groupItemsB == IF Len(results) < 2 THEN <<>> ELSE results[2]
           maxLen == max(Len(groupA), Len(groupB))
       IN IF groupMatches(until, groupItemsA)
          THEN /\ pc' = "returned"
               /\ result' = groupItemsA
               /\ UNCHANGED <<calls, requests, i>>
          ELSE IF groupMatches(until, groupItemsB)
          THEN /\ pc' = "returned"
               /\ result' = groupItemsB
               /\ UNCHANGED <<calls, requests, i>>
          ELSE /\ i' = i + 1
               /\ IF i' < maxLen
                  THEN /\ calls' = calls \o roundCalls(i', groupA, groupB, qtyPerPage)
                       /\ requests' = [k \in 1..(Len(calls') - Len(calls)) |-> Len(calls) + k]
                       /\ UNCHANGED <<pc, result>>
                  ELSE /\ pc' = "returned"
                       /\ result' = <<>>
                       /\ requests' = <<>>
                       /\ UNCHANGED calls
    /\ UNCHANGED <<envVars, op, page, qtyPerPage, until, filter, allData, groupA, groupB>>

Next ==
    \/ \E pageArg \in ArgPages, qtyArg \in ArgQtys : getAllData(pageArg, qtyArg)
    \/ \E pageArg \in ArgPages, qtyArg \in ArgQtys, untilArg \in Untils : getAllDataUntil(pageArg, qtyArg, untilArg)
    \/ \E pageArg \in ArgPages, qtyArg \in ArgQtys, filterArg \in Filters : getAllFilteredData(pageArg, qtyArg, filterArg)
    \/ \E c \in 1..Len(calls) : fetchResolves(c)
    \/ \E c \in 1..Len(calls) : fetchRejects(c)
    \/ getAllDataSeed
    \/ getAllDataRest
    \/ getAllFilteredDataReturn
    \/ getAllDataUntilSeed
    \/ getAllDataUntilRound

Spec == Init /\ [][Next]_vars

TypeOK ==
    /\ pc \in {"idle", "awaitSeed", "awaitAll", "awaitRound", "filtering", "returned", "exited"}
    /\ op \in {"none", "getAllData", "getAllDataUntil", "getAllFilteredData"}

\* ------------------------------------------- two calls on the same client
MaxTwoPages == 3

\* the running call, as it is kept when it is suspended
Running == Suspended(op, page, qtyPerPage, until, filter, pc, calls, requests, allData, groupA, groupB, i, result)

Resume(call) ==
    /\ op' = call.op
    /\ page' = call.page
    /\ qtyPerPage' = call.qtyPerPage
    /\ until' = call.until
    /\ filter' = call.filter
    /\ pc' = call.pc
    /\ calls' = call.calls
    /\ requests' = call.requests
    /\ allData' = call.allData
    /\ groupA' = call.groupA
    /\ groupB' = call.groupB
    /\ i' = call.i
    /\ result' = call.result

SwitchSharingAllData ==
    /\ pc # "exited"
    /\ other.pc # "exited"
    /\ other' = Running
    /\ Resume([other EXCEPT !.allData = allData])
    /\ UNCHANGED <<pageLens, link, arg, ret, git, varService>>

\* at an await the event loop leaves the running call and runs the other one,
\* which finds its own parameters and locals as it left them
Switch ==
    /\ pc # "exited"
    /\ other.pc # "exited"
    /\ other' = Running
    /\ Resume(other)
    /\ UNCHANGED <<pageLens, link, arg, ret, git, varService>>

InitTwo ==
    /\ Collection(MaxTwoPages)
    /\ NoCall
    /\ other = NotCalled
    /\ arg = Nothing
    /\ ret = Nothing
    /\ git = Nothing
    /\ varService = Nothing

NextTwo ==
    \/ getAllData(1, 500)
    \/ \E untilArg \in Untils : getAllDataUntil(1, 500, untilArg)
    \/ getAllFilteredData(1, 500, "dropFirst")
    \/ \E c \in 1..Len(calls) : fetchResolves(c)
    \/ \E c \in 1..Len(calls) : fetchRejects(c)
    \/ getAllDataSeed
    \/ getAllDataRest
    \/ getAllFilteredDataReturn
    \/ getAllDataUntilSeed
    \/ getAllDataUntilRound
    \/ Switch

SpecTwo == InitTwo /\ [][NextTwo]_vars

\* ------------------------------------------------- the partitioner alone
MaxGroupPages == 60

\* no collection is paged through
NoCollection ==
    /\ pageLens = <<>>
    /\ link = [kind |-> "none", last |-> 0]

InitGroups ==
    /\ NoCollection
    /\ NoCall
    /\ other = NotCalled
    /\ arg \in 0..MaxGroupPages
    /\ ret = Nothing
    /\ git = Nothing
    /\ varService = Nothing

\* let [groupA, groupB] = this.createAlternatePagesGroups(totalPages), then
\* the removal of page 1 from both groups
alternatePagesGroups ==
    /\ ret = Nothing
    /\ LET groups == createAlternatePagesGroups(arg)
       IN ret' = [status |-> "ok", groupA |-> removeFirstPage(groups[1]), groupB |-> removeFirstPage(groups[2])]
    /\ UNCHANGED <<pageLens, link, op, page, qtyPerPage, until, filter, pc, calls, requests, allData, groupA, groupB, i,
                   result, other, arg, git, varService>>

NextGroups == alternatePagesGroups

SpecGroups == InitGroups /\ [][NextGroups]_vars

\* ------------------------------------------------------ the parser alone
MaxSections == 2

PageNums == {2, 5, 12}

RelNames == {"prev", "next", "last", "first"}

RelOf(name) ==
    CASE name = "prev" -> RelPrev
      [] name = "next" -> RelNext
      [] name = "last" -> RelLast
      [] name = "first" -> RelFirst

\* a section as the wire format has it, one whose URL has no page parameter,
\* and one that stops after the URL
SectionForms == {"page", "noPage", "noMetadata", "pageFirst", "perPageFirst"}

\* the per_page parameter of the URLs that carry one
PerPage == 30

PerPageEq == <<"p", "e", "r", "_">> \o PageEq

\* <u?page=n&per_page=30>
UrlPageFirst(n) == <<"<", "u", "?">> \o PageEq \o Digits(n) \o <<"&">> \o PerPageEq \o Digits(PerPage) \o <<">">>

\* <u?per_page=30&page=n>
UrlPerPageFirst(n) == <<"<", "u", "?">> \o PerPageEq \o Digits(PerPage) \o <<"&">> \o PageEq \o Digits(n) \o <<">">>

\* (a page number that is not written is kept at 2, a relation that is not
\* written at first; the URLs with a per_page parameter are those of the
\* last page)
HeaderSections ==
    {section \in [rel : RelNames, n : PageNums, form : SectionForms] :
        /\ section.form = "noPage" => section.n = 2
        /\ section.form = "noMetadata" => section.rel = "first"
        /\ section.form \in {"pageFirst", "perPageFirst"} => section.rel = "last"}

BareUrl == <<"<", "u", ">">>

\* the URL of a section as it is written in the header
UrlText(section) ==
    CASE section.form \in {"page", "noMetadata"} -> Url(section.n)
      [] section.form = "noPage" -> BareUrl
      [] section.form = "pageFirst" -> UrlPageFirst(section.n)
      [] section.form = "perPageFirst" -> UrlPerPageFirst(section.n)

SectionText(section) ==
    IF section.form = "noMetadata" THEN UrlText(section)
    ELSE UrlText(section) \o <<";", " ">> \o RelOf(section.rel)

RECURSIVE HeaderText(_)
HeaderText(sections) ==
    IF sections = <<>> THEN <<>>
    ELSE IF Len(sections) = 1 THEN SectionText(sections[1])
    ELSE SectionText(sections[1]) \o <<",", " ">> \o HeaderText(Tail(sections))

Headers == UNION {[1..k -> HeaderSections] : k \in 0..MaxSections}

\* what toLinkHeader is handed: a header string, which may be empty, or a
\* response, which has a Link header with sections or has none
ParserInputs ==
    {[isString |-> TRUE, hasLink |-> TRUE, sections |-> h] : h \in Headers} \cup
    {[isString |-> FALSE, hasLink |-> TRUE, sections |-> h] : h \in Headers \ {<<>>}} \cup
    {[isString |-> FALSE, hasLink |-> FALSE, sections |-> <<>>]}

InitParser ==
    /\ NoCollection
    /\ NoCall
    /\ other = NotCalled
    /\ arg \in ParserInputs
    /\ ret = Nothing
    /\ git = Nothing
    /\ varService = Nothing

\* a call of toLinkHeader
parse ==
    /\ ret = Nothing
    /\ ret' = toLinkHeader(IF arg.hasLink THEN HeaderText(arg.sections) ELSE NoLink)
    /\ UNCHANGED <<pageLens, link, op, page, qtyPerPage, until, filter, pc, calls, requests, allData, groupA, groupB, i,
                   result, other, arg, git, varService>>

NextParser == parse

SpecParser == InitParser /\ [][NextParser]_vars

\* ---------------------------------------------------------------- GitClient
MaxBranches == 3

\* branches are known by their names
BranchNames == 1..MaxBranches

\* branches.filter(...)[0] of an array without such a branch
Undefined == 0

\* the branches of a repository, in the order the refs connection lists them
Repositories ==
    UNION {{b \in [1..n -> BranchNames] : \A j, k \in 1..n : j # k => b[j] # b[k]} : n \in 0..MaxBranches}

\* the number of refs a query asks for
FirstCounts == {1, 2}

\* a call of getBranch(name), or of getBranches with an untilPredicate
\* (true on the branches named in matching) or without one
GitCalls ==
    {[op |-> "getBranch", name |-> name, hasPredicate |-> TRUE, matching |-> {name}] : name \in BranchNames} \cup
    {[op |-> "getBranches", name |-> Undefined, hasPredicate |-> TRUE, matching |-> m] : m \in SUBSET BranchNames} \cup
    {[op |-> "getBranches", name |-> Undefined, hasPredicate |-> FALSE, matching |-> {}]}

InitBranches ==
    /\ NoCollection
    /\ NoCall
    /\ other = NotCalled
    /\ \E branches \in Repositories, first \in FirstCounts, call \in GitCalls :
          arg = [branches |-> branches, first |-> first, call |-> call]
    /\ ret = Nothing
    /\ git = Nothing
    /\ varService = Nothing

\* data.repository.refs of the response to the query for the refs after cursor
refs(cursor) ==
    LET end == IF cursor + arg.first < Len(arg.branches) THEN cursor + arg.first ELSE Len(arg.branches)
    IN [nodes |-> SubSeq(arg.branches, cursor + 1, end),
        pageInfo |-> [hasNextPage |-> end < Len(arg.branches), endCursor |-> end]]

\* the query of a pass of the while loop: without cursor while result is empty
queryCursor(resultSoFar, pageInfo) == IF Len(resultSoFar) <= 0 THEN 0 ELSE pageInfo.endCursor

untilPredicate(branch) == arg.call.hasPredicate /\ branch \in arg.call.matching

pullBranchesWholePage(branches) ==
    [pushed |-> branches, stopPulling |-> \E k \in 1..Len(branches) : untilPredicate(branches[k])]

\* the for loop over the branches of a page: what it pushes, and whether it
\* returns
pullBranches(branches) ==
    LET stops == {k \in 1..Len(branches) : untilPredicate(branches[k])}
    IN IF stops = {} THEN [pushed |-> branches, stopPulling |-> FALSE]
       ELSE [pushed |-> SubSeq(branches, 1, CHOOSE k \in stops : \A m \in stops : k <= m), stopPulling |-> TRUE]

gitUnchanged ==
    UNCHANGED <<pageLens, link, op, page, qtyPerPage, until, filter, pc, calls, requests, allData, groupA, groupB, i,
                result, other, arg, varService>>

\* getBranches, called directly or by getBranch, up to its first query
getBranches ==
    /\ git = Nothing
    /\ git' = [pc |-> "awaitQuery", result |-> <<>>, pageInfo |-> [hasNextPage |-> TRUE, endCursor |-> 0],
               queries |-> <<0>>]
    /\ UNCHANGED ret
    /\ gitUnchanged

\* getBranches from the arrival of a response to its next query or its return
getBranchesPage ==
    /\ git # Nothing
    /\ git.pc = "awaitQuery"
    /\ LET rawBranchData == refs(git.queries[Len(git.queries)])
           pulled == pullBranches(rawBranchData.nodes)
           result1 == git.result \o pulled.pushed
       IN IF ~pulled.stopPulling /\ rawBranchData.pageInfo.hasNextPage
          THEN /\ git' = [git EXCEPT !.result = result1, !.pageInfo = rawBranchData.pageInfo,
                                     !.queries = Append(@, queryCursor(result1, rawBranchData.pageInfo))]
               /\ UNCHANGED ret
          ELSE IF arg.call.op = "getBranches"
          THEN /\ git' = [git EXCEPT !.result = result1, !.pageInfo = rawBranchData.pageInfo, !.pc = "returned"]
               /\ ret' = [status |-> "ok", branches |-> result1]
          ELSE /\ git' = [git EXCEPT !.result = result1, !.pageInfo = rawBranchData.pageInfo, !.pc = "awaitBranches"]
               /\ UNCHANGED ret
    /\ gitUnchanged

\* branches.filter((branch) => branch.name === name)[0]
firstNamed(branches, name) ==
    LET named == SelectSeq(branches, LAMBDA branch : branch = name)
    IN IF named = <<>> THEN Undefined ELSE named[1]

\* getBranch once the getBranches it awaits has returned
getBranchReturn ==
    /\ git # Nothing
    /\ git.pc = "awaitBranches"
    /\ IF Len(git.result) <= 0
       THEN /\ git' = [git EXCEPT !.pc = "exited"]
            /\ ret' = [status |-> "error", branch |-> Undefined]
       ELSE /\ git' = [git EXCEPT !.pc = "returned"]
            /\ ret' = [status |-> "ok", branch |-> firstNamed(git.result, arg.call.name)]
    /\ gitUnchanged

NextBranches ==
    \/ getBranches
    \/ getBranchesPage
    \/ getBranchReturn

SpecBranches == InitBranches /\ [][NextBranches]_vars

\* ---------------------------------------------------- GitHubVariableService
MaxVarCalls == 2

\* variables are known by their names
VarNames == {1, 2}

\* the names, as a caller of allVarsExist lists them
AllVarNames == <<1, 2>>

\* a GitHubVarModel: the value says at which level it was defined and ends
\* in a blank, as values may
GitHubVar(level, name) == [name |-> name, value |-> <<level>> \o Digits(name) \o <<" ">>]

\* the variables of a level, for the names defined there
VarsOf(level, names) ==
    LET defined == SelectSeq(AllVarNames, LAMBDA n : n \in names)
    IN [k \in 1..Len(defined) |-> GitHubVar(level, defined[k])]

InitVars ==
    /\ NoCollection
    /\ NoCall
    /\ other = NotCalled
    /\ \E orgNames \in SUBSET VarNames, repoNames \in SUBSET VarNames :
          arg = [orgVars |-> VarsOf("o", orgNames), repoVars |-> VarsOf("r", repoNames)]
    /\ ret = Nothing
    /\ git = Nothing
    /\ varService = [cachedVars |-> <<>>, calls |-> <<>>, requests |-> <<>>, lookups |-> 0]

\* the undefined that find gives when no variable has the name
undefined == [name |-> Undefined, value |-> <<>>]

\* this.cachedVars.find((v) => v.name === name)
find(cachedVars, name) ==
    LET named == SelectSeq(cachedVars, LAMBDA v : v.name = name)
    IN IF named = <<>> THEN undefined ELSE named[1]

\* what the caller of getVar makes of the variable found
answer(call, variable) ==
    CASE call.op = "getValue" ->
             IF call.throwErrorWhenNotFound /\ variable = undefined THEN [call EXCEPT !.pc = "rejected"]
             ELSE [call EXCEPT !.pc = "returned", !.ret = IF variable = undefined THEN <<>> ELSE trim(variable.value)]
      [] call.op = "varExists" -> [call EXCEPT !.pc = "returned", !.ret = variable # undefined]
      [] call.op = "allVarsExist" ->
             [call EXCEPT !.pc = "running", !.k = @ + 1,
                          !.nonExistingVars = IF variable = undefined THEN Append(@, call.names[call.k]) ELSE @]

\* a call from the getVar of names[k] on, up to the request that getVar
\* makes when the cache is empty or to the return of the call
RECURSIVE getVar(_, _)
getVar(call, cachedVars) ==
    IF call.k > Len(call.names)
    THEN [call EXCEPT !.pc = "returned", !.ret = <<call.nonExistingVars = <<>>, call.nonExistingVars>>]
    ELSE IF Len(cachedVars) = 0 THEN [call EXCEPT !.pc = "awaitOrg"]
    ELSE LET answered == answer(call, find(cachedVars, call.names[call.k]))
         IN IF answered.pc = "running" THEN getVar(answered, cachedVars) ELSE answered

NewCall(operation, names, throwErrorWhenNotFound) ==
    [op |-> operation, names |-> names, throwErrorWhenNotFound |-> throwErrorWhenNotFound, k |-> 1, pc |-> "running",
     orgVars |-> <<>>, nonExistingVars |-> <<>>, ret |-> <<>>]

varsUnchanged ==
    UNCHANGED <<pageLens, link, op, page, qtyPerPage, until, filter, pc, calls, requests, allData, groupA, groupB, i,
                result, other, arg, ret, git>>

\* a call enters the service and runs up to its first request or its return
enter(call) ==
    /\ Len(varService.calls) < MaxVarCalls
    /\ LET ran == getVar(call, varService.cachedVars)
       IN varService' = [varService EXCEPT
              !.calls = Append(@, ran),
              !.requests = IF ran.pc = "awaitOrg" THEN Append(@, "org") ELSE @,
              !.lookups = @ + (ran.k - 1) + (IF call.op # "allVarsExist" /\ ran.pc # "awaitOrg" THEN 1 ELSE 0)]
    /\ varsUnchanged

getValue(name, throwErrorWhenNotFound) == enter(NewCall("getValue", <<name>>, throwErrorWhenNotFound))

varExists(name) == enter(NewCall("varExists", <<name>>, TRUE))

allVarsExist(names) == enter(NewCall("allVarsExist", names, TRUE))

\* getVar of call c from the arrival of the organization's variables to the
\* request for the repository's
getVarOrgVars(c) ==
    /\ varService.calls[c].pc = "awaitOrg"
    /\ varService' = [varService EXCEPT !.calls[c].orgVars = arg.orgVars, !.calls[c].pc = "awaitRepo",
                                        !.requests = Append(@, "repo")]
    /\ varsUnchanged

\* the cache after the push of the organization's variables that the
\* repository does not define and of the repository's variables
cachedVarsPushed(cachedVars, orgVars, repoVars) ==
    cachedVars \o SelectSeq(orgVars, LAMBDA orgVar : ~\E k \in 1..Len(repoVars) : repoVars[k].name = orgVar.name)
               \o repoVars

\* getVar of call c from the arrival of the repository's variables on
getVarRepoVars(c) ==
    /\ varService.calls[c].pc = "awaitRepo"
    /\ LET call == varService.calls[c]
           cachedVars == cachedVarsPushed(varService.cachedVars, call.orgVars, arg.repoVars)
           answered == answer(call, find(cachedVars, call.names[call.k]))
           ran == IF answered.pc = "running" THEN getVar(answered, cachedVars) ELSE answered
       IN varService' = [varService EXCEPT
              !.cachedVars = cachedVars,
              !.calls[c] = ran,
              !.requests = IF ran.pc = "awaitOrg" THEN Append(@, "org") ELSE @,
              !.lookups = @ + (IF call.op = "allVarsExist" THEN ran.k - call.k ELSE 1)]
    /\ varsUnchanged

NextVars ==
    \/ \E name \in VarNames, throwErrorWhenNotFound \in BOOLEAN : getValue(name, throwErrorWhenNotFound)
    \/ \E name \in VarNames : varExists(name)
    \/ allVarsExist(AllVarNames)
    \/ \E c \in 1..Len(varService.calls) : getVarOrgVars(c)
    \/ \E c \in 1..Len(varService.calls) : getVarRepoVars(c)

SpecVars == InitVars /\ [][NextVars]_vars

\* ----------------------------------------------------------------- claims
Calls == 1..Len(calls)

Returned(operation) == pc = "returned" /\ op = operation

\* the seed response announces lastPage as the last page
Announces(lastPage) == link.kind = "std" /\ link.last = lastPage

RECURSIVE SumLens(_)
SumLens(lens) == IF lens = <<>> THEN 0 ELSE Head(lens) + SumLens(Tail(lens))

PagesInOrder(lastPage) == Flatten([p \in 1..lastPage |-> PageItems(p)])

\* C1: getAllData started at page 1 on a collection of N >= 1 pages returns
\* the items of page 1, page 2, ..., page N, each page in its own order, so
\* as many items as the pages hold, whatever the order the fetches complete in
C1_FetchAllInPageOrder ==
    (Returned("getAllData") /\ page = 1 /\ link.kind = "std")
        => /\ result = PagesInOrder(link.last)
           /\ Len(result) = SumLens(pageLens)

\* C1 witness: a fetch-all of at least 3 pages of unequal sizes has returned
\* although a later page arrived before an earlier one
C1_Witness ==
    /\ Returned("getAllData")
    /\ page = 1
    /\ link.kind = "std"
    /\ link.last >= 3
    /\ \E p \in 1..Len(pageLens) : pageLens[p] # MaxItems
    /\ \E c, d \in Calls : c < d /\ calls[c].order > calls[d].order

\* C2: a fetch that fails ends the operation in the terminal error, and an
\* operation that returned had every one of its fetches succeed
C2_NoPartialResult ==
    /\ (\E c \in Calls : calls[c].state = "failed") => pc = "exited"
    /\ pc = "returned" => \A c \in Calls : calls[c].state = "ok"

\* C2 witness: a later page fetch failed after items had been collected, and
\* the operation ended in the terminal error
C2_Witness ==
    /\ pc = "exited"
    /\ allData # <<>>
    /\ \E c \in Calls : calls[c].state = "failed" /\ calls[c].group = "all"
    /\ \E c \in Calls : calls[c].state = "ok" /\ calls[c].group = "all"

\* C3: when the predicate holds on the seed page, getAllDataUntil makes one
\* page-fetch call in all and returns the seed page's items
C3_SeedMatchOneFetch ==
    (op = "getAllDataUntil" /\ untilHolds(until, PageItems(page)))
        => /\ Len(calls) = 1
           /\ pc = "returned" => result = PageItems(page)

\* C3 witness: the seed page matched and was returned although the seed
\* response announced further pages
C3_Witness ==
    /\ Returned("getAllDataUntil")
    /\ untilHolds(until, PageItems(page))
    /\ link.kind = "std"
    /\ link.last >= 3
    /\ result = PageItems(page)

\* the calls a and b are the groupA and the groupB fetch of one round, both arrived
RoundPair(a, b) ==
    /\ calls[a].group = "A"
    /\ calls[b].group = "B"
    /\ calls[a].round = calls[b].round
    /\ calls[a].state = "ok"
    /\ calls[b].state = "ok"

\* C4 as stated: in a round where the groupA page and the groupB page both
\* satisfy the predicate, the groupA page's items are returned
C4_AsStated ==
    \A a, b \in Calls :
        (/\ Returned("getAllDataUntil")
         /\ RoundPair(a, b)
         /\ untilHolds(until, PageItems(calls[a].page))
         /\ untilHolds(until, PageItems(calls[b].page)))
            => result = PageItems(calls[a].page)

\* C4 amended: in a round where the groupA page and the groupB page are both
\* non-empty and both satisfy the predicate, the groupA page's items are
\* returned, whichever of the two fetches completed first
C4_GroupAPrecedence ==
    \A a, b \in Calls :
        (/\ Returned("getAllDataUntil")
         /\ RoundPair(a, b)
         /\ PageItems(calls[a].page) # <<>>
         /\ PageItems(calls[b].page) # <<>>
         /\ untilHolds(until, PageItems(calls[a].page))
         /\ untilHolds(until, PageItems(calls[b].page)))
            => result = PageItems(calls[a].page)

\* C4 witness: both pages of a round after the first matched, the groupB
\* fetch completed first and the groupA page was returned
C4_Witness ==
    \E a, b \in Calls :
        /\ Returned("getAllDataUntil")
        /\ RoundPair(a, b)
        /\ calls[a].round >= 2
        /\ calls[b].order < calls[a].order
        /\ PageItems(calls[a].page) # <<>>
        /\ PageItems(calls[b].page) # <<>>
        /\ untilHolds(until, PageItems(calls[a].page))
        /\ untilHolds(until, PageItems(calls[b].page))
        /\ result = PageItems(calls[a].page)

\* C5: in getAllDataUntil at most two page fetches are in flight, and a fetch
\* of a later round is issued only when every fetch of the earlier rounds has
\* completed
C5_TwoInFlightRoundByRound ==
    op = "getAllDataUntil"
        => /\ Cardinality(Pending) <= 2
           /\ \A c, d \in Calls : calls[c].round < calls[d].round => calls[c].state = "ok"

\* C5 witness: the two fetches of a round after the first are both in flight
C5_Witness ==
    /\ op = "getAllDataUntil"
    /\ Cardinality(Pending) = 2
    /\ \E c \in Pending : calls[c].round >= 2

\* the call c has fetched a page on which the predicate is true
FetchedMatch(c) == calls[c].state = "ok" /\ untilHolds(until, PageItems(calls[c].page))

\* a fetched page that getAllDataUntil takes for a match: the seed page when
\* the predicate is true on it, a page of a round when it also has items
TakenMatch(c) == FetchedMatch(c) /\ (calls[c].group = "seed" \/ PageItems(calls[c].page) # <<>>)

\* the result is the page of a call of round r on which the predicate is true
ReturnsMatchOfRound(r) ==
    \E e \in Calls : calls[e].round = r /\ FetchedMatch(e) /\ result = PageItems(calls[e].page)

\* C6 as stated: once a page on which the predicate is true has been fetched,
\* a page with no items included, no fetch of a later round is issued and
\* the operation returns a match of that round
C6_AsStated ==
    op = "getAllDataUntil"
        => \A c \in Calls :
              FetchedMatch(c)
                  => /\ \A d \in Calls : calls[d].round <= calls[c].round
                     /\ pc = "returned" => ReturnsMatchOfRound(calls[c].round)

\* C6 amended: once a round has fetched a page with at least one item on
\* which the predicate is true (or the seed fetch any page on which it is
\* true), no fetch of a later round is issued and the operation returns a
\* match of that round
C6_StopsAtFirstMatch ==
    op = "getAllDataUntil"
        => \A c \in Calls :
              TakenMatch(c)
                  => /\ \A d \in Calls : calls[d].round <= calls[c].round
                     /\ pc = "returned" => ReturnsMatchOfRound(calls[c].round)

\* C6 witness: a page of the second or a later round matched and was
\* returned while pages of the collection were still unfetched
C6_Witness ==
    \E c \in Calls :
        /\ Returned("getAllDataUntil")
        /\ TakenMatch(c)
        /\ calls[c].round >= 2
        /\ result = PageItems(calls[c].page)
        /\ link.kind = "std"
        /\ Len(calls) < link.last

\* the predicate is false on every page of the collection and on the seed page
NoPageMatches == \A p \in (1..Len(pageLens)) \cup {page} : ~untilHolds(until, PageItems(p))

Rounds == max(Len(groupA), Len(groupB))

\* C7 as stated: when the predicate is false on every page, getAllDataUntil
\* returns the empty sequence after one seed fetch plus two fetches per round
C7_AsStated ==
    (Returned("getAllDataUntil") /\ NoPageMatches)
        => /\ result = <<>>
           /\ Len(calls) = 1 + 2 * Rounds

\* C7 amended: when the predicate is false on every page, getAllDataUntil
\* returns the empty sequence after exhausting all rounds, having made the
\* seed fetch plus one fetch per page of groupA and of groupB: N fetches for
\* an announced total of N >= 1 pages, never more than seed plus two per round
C7_ExhaustedFetchCount ==
    (Returned("getAllDataUntil") /\ NoPageMatches)
        => /\ result = <<>>
           /\ i = Rounds
           /\ Len(calls) = 1 + Len(groupA) + Len(groupB)
           /\ Len(calls) <= 1 + 2 * Rounds
           /\ link.kind = "std" => Len(calls) = link.last

\* C7 witness: five pages, none matching, searched to the end in three rounds
C7_Witness ==
    /\ Returned("getAllDataUntil")
    /\ NoPageMatches
    /\ Announces(5)
    /\ Rounds = 3
    /\ Len(calls) = 5
    /\ result = <<>>

\* the last page lastPage is the only page on which the predicate is true
OnlyLastPageMatches(lastPage) ==
    \A p \in (1..Len(pageLens)) \cup {page} : untilHolds(until, PageItems(p)) <=> p = lastPage

\* C8 as stated: when the last page N >= 2 is the only page satisfying the
\* predicate, getAllDataUntil returns page N's items after at most 3 fetches
C8_AsStated ==
    (Returned("getAllDataUntil") /\ link.kind = "std" /\ link.last >= 2 /\ OnlyLastPageMatches(link.last))
        => /\ result = PageItems(link.last)
           /\ Len(calls) <= 3

\* C8 amended: when the last page N >= 2 has at least one item and is the
\* only page satisfying the predicate, getAllDataUntil returns page N's items
\* after at most 3 fetches (the seed, then round 0, whose groupB probe is N)
C8_LastPageInThreeFetches ==
    (/\ Returned("getAllDataUntil")
     /\ link.kind = "std"
     /\ link.last >= 2
     /\ PageItems(link.last) # <<>>
     /\ OnlyLastPageMatches(link.last))
        => /\ result = PageItems(link.last)
           /\ Len(calls) <= 3
           /\ \A c \in Calls : calls[c].group = "B" => calls[c].page = link.last

\* C8 witness: nine pages, page 9 alone matching, returned after the seed
\* fetch of page 1 and the two fetches of round 0
C8_Witness ==
    /\ Returned("getAllDataUntil")
    /\ Announces(9)
    /\ page = 1
    /\ OnlyLastPageMatches(9)
    /\ result = PageItems(9)
    /\ result # <<>>
    /\ Len(calls) = 3

\* C9: the result of getAllDataUntil is the empty sequence or the items of
\* one fetched page on which the predicate is true, and it is the empty
\* sequence when neither the seed nor any round produced a match
C9_OnePageOrNothing ==
    Returned("getAllDataUntil")
        => /\ \/ result = <<>>
              \/ \E c \in Calls : FetchedMatch(c) /\ result = PageItems(calls[c].page)
           /\ (\A c \in Calls : ~TakenMatch(c)) => result = <<>>

\* C9 witness: a page found in a later round is returned alone, after
\* non-empty pages that did not match had been fetched
C9_Witness ==
    \E c \in Calls :
        /\ Returned("getAllDataUntil")
        /\ calls[c].round >= 2
        /\ result = PageItems(calls[c].page)
        /\ result # <<>>
        /\ \E d \in Calls : d < c /\ PageItems(calls[d].page) # <<>> /\ ~FetchedMatch(d)

\* the seed invocation an operation entered with pageArg and qtyArg makes
EntersWith(pageArg, qtyArg) ==
    \/ getAllData(pageArg, qtyArg)
    \/ \E untilArg \in Untils : getAllDataUntil(pageArg, qtyArg, untilArg)
    \/ \E filterArg \in Filters : getAllFilteredData(pageArg, qtyArg, filterArg)

\* C10: every invocation of the page-fetch callback gets a page >= 1 and a
\* qtyPerPage in 1..100; qtyPerPage 0, -5 and 500 reach it as 1, 1 and 100
\* and start page 0 or -3 as 1, in the first invocation made
C10_CallbackArguments ==
    [][/\ \A c \in 1..Len(calls') : calls'[c].page >= 1 /\ calls'[c].qty \in 1..100
       /\ \A qtyArg \in ArgQtys : EntersWith(0, qtyArg) \/ EntersWith(-3, qtyArg) => calls'[1].page = 1
       /\ \A pageArg \in ArgPages : EntersWith(pageArg, 0) \/ EntersWith(pageArg, -5) => calls'[1].qty = 1
       /\ \A pageArg \in ArgPages : EntersWith(pageArg, 500) => calls'[1].qty = 100]_vars

\* C10 witness: an operation entered with a qtyPerPage below 1 has fetched
\* its seed page and further pages, all with page >= 1 and qtyPerPage 1
C10_Witness ==
    /\ op = "getAllFilteredData"
    /\ qtyPerPage = 1
    /\ page = 1
    /\ Len(calls) >= 3
    /\ \A c \in Calls : calls[c].qty = 1 /\ calls[c].page >= 1

\* C11: when the seed response carries no Link header the data is one page:
\* one page-fetch call is issued, getAllData returns the seed page's items,
\* and getAllDataUntil returns them if the predicate holds on them and the
\* empty sequence otherwise
C11_NoLinkOnePage ==
    (link.kind = "none" /\ op \in {"getAllData", "getAllDataUntil"})
        => /\ Len(calls) = 1
           /\ calls[1].page = page
           /\ Returned("getAllData") => result = PageItems(page)
           /\ Returned("getAllDataUntil")
                => result = IF untilHolds(until, PageItems(page)) THEN PageItems(page) ELSE <<>>

\* C11 witness: getAllData has returned the items of the only page of a
\* collection whose response has no Link header, after one fetch
C11_Witness ==
    /\ link.kind = "none"
    /\ Returned("getAllData")
    /\ Len(calls) = 1
    /\ result = PageItems(1)
    /\ result # <<>>

\* C12: when the seed response announces N >= 2 pages, getAllData issues one
\* fetch for each page 2..N in the step that follows the seed, none of them
\* waited on before all are issued, issues nothing after, and returns only
\* when every one of them has completed
C12_OneFetchPerRemainingPage ==
    [][(op' = "getAllData" /\ link.kind = "std" /\ link.last >= 2)
         => /\ (Len(calls) = 1 /\ Len(calls') > 1)
                => /\ Len(calls') = link.last
                   /\ \A k \in 2..link.last : calls'[k].page = k /\ calls'[k].state = "pending"
            /\ Len(calls) > 1 => Len(calls') = Len(calls)
            /\ pc' = "returned"
                => /\ Len(calls') = link.last
                   /\ \A k \in 1..link.last : calls'[k].state = "ok"]_vars

\* C12 witness: getAllData has returned from a collection of three or more
\* pages with one completed fetch per page, the last page completing before
\* page 2
C12_Witness ==
    /\ Returned("getAllData")
    /\ link.kind = "std"
    /\ link.last >= 3
    /\ Len(calls) = link.last
    /\ \A k \in 2..link.last : calls[k].page = k /\ calls[k].state = "ok"
    /\ calls[link.last].order < calls[2].order

\* the items of a result are in strictly ascending order of page and, within
\* a page, of position: no page's items come twice or out of order
AscendingPages(res) ==
    \A a, b \in 1..Len(res) :
        a < b => \/ res[a][1] < res[b][1]
                 \/ res[a][1] = res[b][1] /\ res[a][2] < res[b][2]

NoPageFetchedTwice == \A c, d \in Calls : c # d => calls[c].page # calls[d].page

\* C13: for every start page s >= 1 the result of getAllData has its pages in
\* strictly increasing page order, so no page's items appear twice, and no
\* page is fetched twice within the call
C13_AscendingFromAnyStart ==
    op = "getAllData"
        => /\ NoPageFetchedTwice
           /\ pc = "returned" => AscendingPages(result)

\* the total the seed response's Link header gives getAllData
LastPageSeen ==
    CASE link.kind = "std" -> link.last
      [] link.kind = "none" -> 1
      [] OTHER -> 0

\* the pages getAllData fetches from start page s, in the order it lays them out
FetchAllPages(s) == <<s>> \o [k \in 1..(IF LastPageSeen >= 2 THEN LastPageSeen - 1 ELSE 0) |-> k + 1]

FetchAllItems(s) == Flatten([k \in 1..Len(FetchAllPages(s)) |-> PageItems(FetchAllPages(s)[k])])

FetchedPages == [c \in Calls |-> calls[c].page]

Failed == {c \in Calls : calls[c].state = "failed"}

\* C15: the step in which a page fetch fails ends the operation: it issues
\* no fetch, getAllDataUntil starts no later round, and no step after it
\* issues a fetch or advances the round
C15_FailureStopsEverything ==
    [][(\E c \in 1..Len(calls') : calls'[c].state = "failed")
         => /\ pc' = "exited"
            /\ Len(calls') = Len(calls)
            /\ i' = i
            /\ op = "getAllDataUntil" => \A c \in 1..Len(calls') : calls'[c].round <= i + 1]_vars

\* C15 witness: getAllDataUntil has exited on a failed fetch in a round after
\* the first with pages of the collection never fetched
C15_Witness ==
    /\ op = "getAllDataUntil"
    /\ pc = "exited"
    /\ link.kind = "std"
    /\ Len(calls) < link.last
    /\ \E c \in Failed : calls[c].group \in {"A", "B"} /\ calls[c].round >= 2
    /\ Cardinality(Failed) = 1

\* what getAllDataUntil run alone probes and returns from round r on: the
\* pages of each round in the order fetched, up to the round that matches
RECURSIVE AloneRounds(_, _, _, _)
AloneRounds(r, gA, gB, u) ==
    IF r >= max(Len(gA), Len(gB)) THEN [result |-> <<>>, pages |-> <<>>]
    ELSE LET probed == (IF r < Len(gA) THEN <<gA[r + 1]>> ELSE <<>>) \o (IF r < Len(gB) THEN <<gB[r + 1]>> ELSE <<>>)
             rest == AloneRounds(r + 1, gA, gB, u)
         IN IF groupMatches(u, PageItems(probed[1]))
            THEN [result |-> PageItems(probed[1]), pages |-> probed]
            ELSE IF Len(probed) = 2 /\ groupMatches(u, PageItems(probed[2]))
            THEN [result |-> PageItems(probed[2]), pages |-> probed]
            ELSE [result |-> rest.result, pages |-> probed \o rest.pages]

\* the result and the pages fetched of a call that runs alone on the client
Alone(call) ==
    LET groups == createAlternatePagesGroups(LastPageSeen)
        rounds == AloneRounds(0, removeFirstPage(groups[1]), removeFirstPage(groups[2]), call.until)
    IN CASE call.op = "getAllData" -> [result |-> FetchAllItems(call.page), pages |-> FetchAllPages(call.page)]
         [] call.op = "getAllFilteredData" ->
                [result |-> filterFunction(call.filter, FetchAllItems(call.page)), pages |-> FetchAllPages(call.page)]
         [] call.op = "getAllDataUntil" ->
                IF seedMatches(call.until, PageItems(call.page))
                THEN [result |-> PageItems(call.page), pages |-> <<call.page>>]
                ELSE [result |-> rounds.result, pages |-> <<call.page>> \o rounds.pages]

AsAlone(call) ==
    call.pc = "returned"
        => /\ call.result = Alone(call).result
           /\ [c \in 1..Len(call.calls) |-> call.calls[c].page] = Alone(call).pages

\* C16: the engine keeps no state between or across calls: of two calls
\* running interleaved on the same client, each returns the result and makes
\* the page fetches it makes when it runs alone
C16_ConcurrentCallsIndependent == AsAlone(Running) /\ AsAlone(other)

\* C16 witness: a getAllData call and a getAllDataUntil call on the same
\* client have both returned, each with items of its own and each after
\* fetching two pages or more
C16_Witness ==
    /\ Returned("getAllData")
    /\ other.pc = "returned"
    /\ other.op = "getAllDataUntil"
    /\ Len(calls) >= 2
    /\ Len(other.calls) >= 2
    /\ result # <<>>
    /\ other.result # <<>>
    /\ other.result # result

Range(s) == {s[k] : k \in 1..Len(s)}

\* the integers from, from + 1, ..., to
Ascending(from, to) == [k \in 1..(IF to >= from THEN to - from + 1 ELSE 0) |-> from + k - 1]

\* the integers from, from - 1, ..., to
Descending(from, to) == [k \in 1..(IF from >= to THEN from - to + 1 ELSE 0) |-> from - k + 1]

\* C17: for every totalPages N >= 0 the groups, page 1 removed, are
\* groupA = [2 .. N div 2] ascending and groupB = [N .. N div 2 + 1]
\* descending without page 1: disjoint, together exactly 2..N; N = 10 gives
\* [2,3,4,5] and [10,9,8,7,6], N = 1 gives two empty groups
C17_AlternateGroups ==
    ret # Nothing
        => /\ ret.groupA = Ascending(2, arg \div 2)
           /\ ret.groupB = SelectSeq(Descending(arg, arg \div 2 + 1), LAMBDA p : p # 1)
           /\ Range(ret.groupA) \cap Range(ret.groupB) = {}
           /\ Range(ret.groupA) \cup Range(ret.groupB) = 2..arg
           /\ Len(ret.groupA) + Len(ret.groupB) = Cardinality(2..arg)
           /\ arg = 10 => ret.groupA = <<2, 3, 4, 5>> /\ ret.groupB = <<10, 9, 8, 7, 6>>
           /\ arg = 1 => ret.groupA = <<>> /\ ret.groupB = <<>>

\* C17 witness: the groups of 10 pages have been made and are [2,3,4,5] and
\* [10,9,8,7,6]
C17_Witness ==
    /\ arg = 10
    /\ ret # Nothing
    /\ ret.groupA = <<2, 3, 4, 5>>
    /\ ret.groupB = <<10, 9, 8, 7, 6>>

\* toLinkHeader was handed an empty string or a response without Link header
NoHeaderGiven == (arg.isString /\ arg.sections = <<>>) \/ ~arg.hasLink

\* C18: toLinkHeader returns null exactly when its input is an empty string
\* or a response without a Link header, and a LinkHeaderInfo for every other
\* input
C18_NullExactlyWithoutHeader ==
    ret # Nothing => ret.status = (IF NoHeaderGiven THEN "null" ELSE "ok")

\* every section of the header has a URL with a page parameter and a rel
WellFormed == arg.hasLink /\ arg.sections # <<>> /\ \A k \in 1..Len(arg.sections) : arg.sections[k].form = "page"

\* the page number of the section of relation rel (of the last one, if
\* several), 0 if there is none
PageOfRel(rel) ==
    LET with == {k \in 1..Len(arg.sections) : arg.sections[k].rel = rel}
    IN IF with = {} THEN 0 ELSE arg.sections[CHOOSE k \in with : \A m \in with : m <= k].n

C20_MalformedHeaderNeverRaises ==
    op \in {"getAllData", "getAllDataUntil"}
        => /\ toLinkHeader(HeaderOf(link)).status # "throw"
           /\ pc = "exited" => Failed # {}

\* every section of the header has its ";" and its metadata half
AllWithMetadata == arg.hasLink /\ \A k \in 1..Len(arg.sections) : arg.sections[k].form # "noMetadata"

Classified(section) == section.rel \in {"prev", "next", "last"}

\* what toLinkHeader makes of the header once the sections that are not
\* classified are taken out of it (the initial fields if no section is left)
OfClassifiedOnly ==
    LET kept == SelectSeq(arg.sections, Classified)
    IN IF kept = <<>> THEN [prevPage |-> 0, nextPage |-> 0, totalPages |-> 0]
       ELSE toLinkHeader(HeaderText(kept))

\* C21: pageData has one entry per header section, in header order, with the
\* section's URL and metadata, and the sections that are neither prev, next
\* nor last (rel="first") leave prevPage, nextPage and totalPages as they
\* are without them
C21_UnmatchedSectionsKept ==
    (ret # Nothing /\ AllWithMetadata /\ arg.sections # <<>>)
        => /\ ret.status = "ok"
           /\ Len(ret.pageData) = Len(arg.sections)
           /\ \A k \in 1..Len(arg.sections) :
                 /\ ret.pageData[k].pageUrl = UrlText(arg.sections[k])
                 /\ ret.pageData[k].metadata = RelOf(arg.sections[k].rel)
           /\ ret.prevPage = OfClassifiedOnly.prevPage
           /\ ret.nextPage = OfClassifiedOnly.nextPage
           /\ ret.totalPages = OfClassifiedOnly.totalPages

\* C21 witness: a header with a rel="last" section followed by a rel="first"
\* section has been parsed: two entries in pageData, totalPages that of the
\* last section
C21_Witness ==
    /\ ret # Nothing
    /\ arg.hasLink
    /\ Len(arg.sections) = 2
    /\ arg.sections[1] = [rel |-> "last", n |-> 5, form |-> "page"]
    /\ arg.sections[2] = [rel |-> "first", n |-> 12, form |-> "page"]
    /\ ret.status = "ok"
    /\ Len(ret.pageData) = 2
    /\ ret.pageData[2].metadata = RelFirst
    /\ ret.totalPages = 5
    /\ ret.prevPage = 0
    /\ ret.nextPage = 0

\* the number after the first page=<digits> in the URL of a section, as the
\* URL is written: in per_page=30 the text page=30 is such a token
FirstPageToken(section) ==
    CASE section.form = "page" -> section.n
      [] section.form = "pageFirst" -> section.n
      [] section.form = "perPageFirst" -> PerPage
      [] section.form = "noPage" -> 0

\* the number of the first page=<digits> token of the section of relation
\* rel (of the last one, if several), 0 if there is none
TokenOfRel(rel) ==
    LET with == {k \in 1..Len(arg.sections) : arg.sections[k].rel = rel}
    IN IF with = {} THEN 0 ELSE FirstPageToken(arg.sections[CHOOSE k \in with : \A m \in with : m <= k])

\* C22: the page number extracted for a classified section is the integer
\* the digits of the first page=<digits> token of its URL form, and 0 when
\* the URL has no such token
C22_FirstPageToken ==
    (ret # Nothing /\ AllWithMetadata /\ arg.sections # <<>>)
        => /\ ret.prevPage = TokenOfRel("prev")
           /\ ret.nextPage = TokenOfRel("next")
           /\ ret.totalPages = TokenOfRel("last")
           /\ \A k \in 1..Len(arg.sections) :
                 getPageNumber(ret.pageData[k].pageUrl) = FirstPageToken(arg.sections[k])

\* C22 witness: a header whose rel="last" URL is <u?page=12&per_page=30> and
\* whose rel="prev" URL has no page parameter has been parsed to totalPages
\* 12 and prevPage 0
C22_Witness ==
    /\ ret # Nothing
    /\ arg.hasLink
    /\ Len(arg.sections) = 2
    /\ arg.sections[1] = [rel |-> "last", n |-> 12, form |-> "pageFirst"]
    /\ arg.sections[2] = [rel |-> "prev", n |-> 2, form |-> "noPage"]
    /\ ret.status = "ok"
    /\ ret.totalPages = 12
    /\ ret.prevPage = 0

\* the rel="last" section that sets totalPages has a URL with both a
\* per_page and a page parameter
LastHasPerPage ==
    LET with == {k \in 1..Len(arg.sections) : arg.sections[k].rel = "last"}
    IN /\ with # {}
       /\ arg.sections[CHOOSE k \in with : \A m \in with : m <= k].form \in {"pageFirst", "perPageFirst"}

\* C26: for a rel="last" section whose URL has a per_page=<m> and a page=<n>
\* parameter, in either order, totalPages is n, the value of the page
\* parameter
C26_PageParameterIsTotal ==
    (ret # Nothing /\ AllWithMetadata /\ LastHasPerPage)
        => /\ ret.status = "ok"
           /\ ret.totalPages = PageOfRel("last")

\* some page of the collection has items and satisfies the predicate
SomePageMatches == \E p \in 1..Len(pageLens) : PageItems(p) # <<>> /\ untilHolds(until, PageItems(p))

\* C23 as stated: started at page 1 on N >= 1 announced pages of which one
\* has items and satisfies the predicate, getAllDataUntil returns a
\* non-empty sequence that satisfies the predicate
C23_AsStated ==
    (Returned("getAllDataUntil") /\ page = 1 /\ link.kind = "std" /\ SomePageMatches)
        => /\ result # <<>>
           /\ untilHolds(until, result)

\* the seed page has no items and the predicate is true on no items
EmptySeedMatches == PageItems(page) = <<>> /\ untilHolds(until, <<>>)

\* C23 amended: started at page 1 on N >= 1 announced pages of which one has
\* items and satisfies the predicate, getAllDataUntil returns a non-empty
\* sequence that satisfies the predicate, also when the page is probed in a
\* round where only groupB supplies a page, unless the seed page is empty
\* and the predicate holds on the empty sequence (the seed is then returned)
C23_Complete ==
    (Returned("getAllDataUntil") /\ page = 1 /\ link.kind = "std" /\ SomePageMatches /\ ~EmptySeedMatches)
        => /\ result # <<>>
           /\ untilHolds(until, result)

\* C23 witness: the only matching page was found by the groupB probe of a
\* round after the first in which groupA had no page left
C23_Witness ==
    \E c \in Calls :
        /\ Returned("getAllDataUntil")
        /\ page = 1
        /\ link.kind = "std"
        /\ calls[c].group = "B"
        /\ calls[c].round >= 2
        /\ calls[c].round > Len(groupA)
        /\ \A p \in 1..Len(pageLens) : untilHolds(until, PageItems(p)) <=> p = calls[c].page
        /\ result = PageItems(calls[c].page)
        /\ result # <<>>

\* the pages the call has fetched
PagesFetched == {calls[c].page : c \in Calls}

\* C24: within a getAllDataUntil call started at page 1 no page is fetched
\* twice, and when the predicate is false on every page each page of 1..N is
\* fetched exactly once: N page-fetch calls in all
C24_EachPageOnce ==
    (op = "getAllDataUntil" /\ page = 1)
        => /\ NoPageFetchedTwice
           /\ PagesFetched \subseteq 1..Len(pageLens)
           /\ (pc = "returned" /\ NoPageMatches /\ link.kind = "std")
                => /\ PagesFetched = 1..link.last
                   /\ Len(calls) = link.last

\* C24 witness: six pages, none matching, each fetched once by a call that
\* has returned
C24_Witness ==
    /\ Returned("getAllDataUntil")
    /\ page = 1
    /\ NoPageMatches
    /\ Announces(6)
    /\ Len(calls) = 6
    /\ PagesFetched = 1..6
    /\ NoPageFetchedTwice

\* C25: when the Link header of the seed response has no rel="last" section,
\* getAllData issues no further fetch and returns the seed page's items, and
\* getAllDataUntil probes no page beyond the seed
C25_NoLastSection ==
    (link.kind = "noLast" /\ op \in {"getAllData", "getAllDataUntil"})
        => /\ toLinkHeader(HeaderOf(link)).status = "ok"
           /\ toLinkHeader(HeaderOf(link)).totalPages = 0
           /\ Len(calls) = 1
           /\ calls[1].page = page
           /\ pc # "awaitRound"
           /\ Returned("getAllData") => result = PageItems(page)
           /\ Returned("getAllDataUntil")
                => result = IF untilHolds(until, PageItems(page)) THEN PageItems(page) ELSE <<>>

\* C25 witness: getAllData has returned the items of the seed page, fetched
\* alone, from a response whose Link header has sections but none rel="last"
C25_Witness ==
    /\ link.kind = "noLast"
    /\ Returned("getAllData")
    /\ Len(toLinkHeader(HeaderOf(link)).pageData) = 2
    /\ Len(calls) = 1
    /\ result = PageItems(1)
    /\ result # <<>>

\* C27: getBranch(name) ends in the error 'The branch does not exist' when
\* the repository has no branch of that name, other branches or not, and
\* otherwise returns the branch of that name, never an undefined branch
C27_BranchOrError ==
    (git # Nothing /\ arg.call.op = "getBranch" /\ git.pc \in {"returned", "exited"})
        => IF arg.call.name \in Range(arg.branches)
           THEN git.pc = "returned" /\ ret.branch = arg.call.name
           ELSE git.pc = "exited" /\ ret.status = "error"

\* the position of the first branch on which the predicate is true, 0 if none
FirstMatch ==
    LET matches == {k \in 1..Len(arg.branches) : untilPredicate(arg.branches[k])}
    IN IF matches = {} THEN 0 ELSE CHOOSE k \in matches : \A m \in matches : k <= m

\* the number of pages that hold the first count branches
PagesFor(count) == (count + arg.first - 1) \div arg.first

\* C28: getBranches with a predicate stops at the first branch, in page and
\* in-page order, on which it is true: the result is all branches up to and
\* including that one and no later page is queried; without predicate or
\* match the result is all branches of all pages, the last page queried
\* being the one that reports hasNextPage = false
C28_StopsAtFirstMatch ==
    (git # Nothing /\ git.pc \in {"returned", "awaitBranches", "exited"})
        => /\ \A k \in 1..Len(git.queries) : git.queries[k] = (k - 1) * arg.first
           /\ IF FirstMatch > 0
              THEN /\ git.result = SubSeq(arg.branches, 1, FirstMatch)
                   /\ Len(git.queries) = PagesFor(FirstMatch)
              ELSE /\ git.result = arg.branches
                   /\ Len(git.queries) = (IF arg.branches = <<>> THEN 1 ELSE PagesFor(Len(arg.branches)))
                   /\ ~git.pageInfo.hasNextPage

\* C28 witness: getBranches has returned the first two of three branches,
\* the second being the first match, after querying one page of two and
\* not the page after it
C28_Witness ==
    /\ git # Nothing
    /\ git.pc = "returned"
    /\ arg.call.op = "getBranches"
    /\ arg.first = 2
    /\ Len(arg.branches) = 3
    /\ FirstMatch = 2
    /\ Cardinality(arg.call.matching) >= 2
    /\ ret.branches = SubSeq(arg.branches, 1, 2)
    /\ Len(git.queries) = 1
    /\ git.pageInfo.hasNextPage

\* C29: once a first getVar lookup has completed, a getValue, varExists or
\* allVarsExist call that enters the service is answered from the cache: it
\* returns in the step it enters and no request goes to the organization or
\* repository client, whatever variables GitHub returned
C29_LaterCallsFromCache ==
    [][(varService.lookups >= 1 /\ Len(varService'.calls) > Len(varService.calls))
         => /\ varService'.requests = varService.requests
            /\ varService'.calls[Len(varService'.calls)].pc \in {"returned", "rejected"}]_vars

VarNamesOf(variables) == {variables[k].name : k \in 1..Len(variables)}

\* C30: in every state of the service, calls running concurrently before the
\* first lookup completes included, the cache has at most one entry per
\* variable name, and for a name defined at organization and at repository
\* level the entry, and the value getValue returns, is the repository's
C30_OneEntryPerName ==
    LET cachedVars == varService.cachedVars
        both == VarNamesOf(arg.orgVars) \cap VarNamesOf(arg.repoVars)
    IN /\ \A j, k \in 1..Len(cachedVars) : j # k => cachedVars[j].name # cachedVars[k].name
       /\ \A k \in 1..Len(cachedVars) : cachedVars[k].name \in both => cachedVars[k] = GitHubVar("r", cachedVars[k].name)
       /\ \A c \in 1..Len(varService.calls) :
             LET call == varService.calls[c]
             IN (call.op = "getValue" /\ call.pc = "returned" /\ call.names[1] \in both)
                    => call.ret = trim(GitHubVar("r", call.names[1]).value)

====
